---- MODULE Spec2Model ----
(***************************************************************************)
(* Model of BetterVoice/WhisperBridge.cpp: the flat C bridge around the    *)
(* whisper.cpp engine (whisper_bridge_init / _free / _transcribe /         *)
(* _is_valid).                                                             *)
(*                                                                         *)
(* The engine itself is an external library: every value that it           *)
(* returns is a nondeterministic choice, and its per-context result list   *)
(* is kept in segs.  A context pointer is an address in 1..MaxHandles, 0   *)
(* is nullptr.  A char* is a record [null, s]: s is the pointed-to C       *)
(* string as a sequence of characters (without the terminating NUL).       *)
(***************************************************************************)
EXTENDS Integers, Sequences, FiniteSets, TLC

\* ---------------------------------------------------------------- bounds
MaxHandles == 2
MaxSegs == 3

\* ------------------------------------------------------------- constants
NULL == 0
NThreads == 4

Handles == 1..MaxHandles
Pointers == {NULL} \cup Handles

NUL == "\\0"
Garbage == "?"

NullText == [null |-> TRUE, s |-> <<>>]
Ptr(str) == [null |-> FALSE, s |-> str]

\* The fragments the engine may report for one segment (nullptr included).
SegTexts == {NullText, Ptr(<<"a">>), Ptr(<<"b", "c">>)}

RECURSIVE SeqsUpTo(_, _)
SeqsUpTo(S, n) ==
    IF n = 0 THEN {<<>>}
    ELSE LET shorter == SeqsUpTo(S, n - 1)
         IN  shorter \cup {Append(q, x) : q \in {r \in shorter : Len(r) = n - 1}, x \in S}

SegLists == SeqsUpTo(SegTexts, MaxSegs)
ShortSegLists == {<<>>, <<Ptr(<<"a">>)>>}

\* Return codes of whisper_full: 0 is success, anything else a failure.
RetCodes == {0, -1, 7}
\* <<whisper_n_len, whisper_lang_auto_detect>> results, one per branch taken.
Probes == {<<0, -1>>, <<3000, -1>>, <<3000, 0>>}

\* Caller-side argument domains.
NoStr == "<nullptr>"
Languages == {NoStr, "fr"}
Prompts == {NoStr, "hint"}
AudioLengths == {-1, 0, 1}
ModelPaths == {"model.bin", "missing.bin"}
Configs == Languages \X BOOLEAN \X Prompts
TwoConfigs == {<<NoStr, FALSE, NoStr>>, <<"fr", TRUE, "hint">>}

\* whisper_full_default_params(WHISPER_SAMPLING_GREEDY), as far as the bridge
\* touches it.
EngineDefault == "<engine default>"
whisper_full_default_params(strategy) ==
    [strategy |-> strategy, n_threads |-> 0, language |-> EngineDefault,
     translate |-> FALSE, print_progress |-> TRUE, print_special |-> FALSE,
     initial_prompt |-> EngineDefault]

NoParams == [strategy |-> "none", n_threads |-> 0, language |-> EngineDefault,
             translate |-> FALSE, print_progress |-> FALSE, print_special |-> FALSE,
             initial_prompt |-> EngineDefault]

VARIABLES
    ctxState,   \* engine-side lifecycle of the context at each address
    segs,       \* engine-side result list (result_all) of each context
    last,       \* the last bridge call: its arguments and what it returned
    calls,      \* the engine calls the last bridge call made, in order
    params,     \* the whisper_full_params the last bridge call gave the engine
    alloc,      \* what malloc answered in the last bridge call: none, ok, failed
    crashed     \* the process faulted (use of a destroyed context)

vars == <<ctxState, segs, last, calls, params, alloc, crashed>>

Call(fn, ctx, arg, ret) == [fn |-> fn, ctx |-> ctx, arg |-> arg, ret |-> ret]

\* op: the bridge function; ctx .. prompt: its arguments (for init, ctx is the
\* handle it returned); pre: the lifecycle state of ctx when it was called;
\* ret: the char* returned by transcribe; valid: the bool returned by is_valid;
\* done: the call returned to its caller.
Op(op, ctx, audio, len, language, translate, prompt, pre, ret, done) ==
    [op |-> op, ctx |-> ctx, audio |-> audio, len |-> len, language |-> language,
     translate |-> translate, prompt |-> prompt, pre |-> pre, ret |-> ret,
     valid |-> FALSE, done |-> done]

StateOf(ctx) == IF ctx = NULL THEN "null" ELSE ctxState[ctx]

\* A pointer the caller can hold: nullptr or an address some init returned.
Held(ctx) == IF ctx = NULL THEN TRUE ELSE ctxState[ctx] # "Uninitialized"

Init ==
    /\ ctxState = [h \in Handles |-> "Uninitialized"]
    /\ segs = [h \in Handles |-> <<>>]
    /\ last = Op("none", NULL, FALSE, 0, NoStr, FALSE, NoStr, "null", NullText, FALSE)
    /\ calls = <<>>
    /\ params = NoParams
    /\ alloc = "none"
    /\ crashed = FALSE

\* ------------------------------------------------------- C string helpers
strlen(str) == Len(str)

\* malloc(n): n bytes of uninitialised storage.
malloc(n) == [i \in 1..n |-> Garbage]

\* Index of the first NUL of a buffer (0 when there is none).
RECURSIVE FirstNul(_, _)
FirstNul(buf, i) ==
    IF i > Len(buf) THEN 0
    ELSE IF buf[i] = NUL THEN i
    ELSE FirstNul(buf, i + 1)

\* The C string a buffer holds: the bytes before its first NUL.
CStr(buf) ==
    LET z == FirstNul(buf, 1)
    IN  IF z = 0 THEN buf ELSE SubSeq(buf, 1, z - 1)

\* strcpy(dest, src): src and its NUL written from the start of dest.
strcpy(dest, src) ==
    [i \in 1..Len(dest) |->
        IF i <= Len(src) THEN src[i]
        ELSE IF i = Len(src) + 1 THEN NUL
        ELSE dest[i]]

\* Variant of strcat that writes from the start of dest, as strcpy does.
strcat_from_start(dest, src) == strcpy(dest, src)

\* strcat(dest, src): src and its NUL written from the first NUL of dest.
strcat(dest, src) ==
    LET z == FirstNul(dest, 1)
    IN  [i \in 1..Len(dest) |->
            IF i < z THEN dest[i]
            ELSE IF i < z + Len(src) THEN src[i - z + 1]
            ELSE IF i = z + Len(src) THEN NUL
            ELSE dest[i]]

\* A freshly malloc'ed copy of msg, or nullptr when malloc fails.
DupString(msg, allocOk) ==
    IF allocOk THEN Ptr(CStr(strcpy(malloc(strlen(msg) + 1), msg))) ELSE NullText

\* ------------------------------------------------- whisper_bridge_transcribe
\* Variant of the guard that lets a zero audio_length through.
InvalidInputNegativeOnly(ctx, audio, len) == ctx = NULL \/ ~audio \/ len < 0

\* The guard of the function: true when it returns nullptr at once.
\* audio is TRUE for a non-null audio_data pointer.
InvalidInput(ctx, audio, len) == ctx = NULL \/ ~audio \/ len <= 0

\* Variant of the parameters that keeps the hardcoded language.
BuildParamsEnglishOnly(language, translate, prompt) ==
    LET p0 == whisper_full_default_params("GREEDY")
        p1 == [p0 EXCEPT !.n_threads = NThreads, !.language = "en",
                         !.translate = translate, !.print_progress = FALSE,
                         !.print_special = FALSE]
    IN  IF prompt # NoStr THEN [p1 EXCEPT !.initial_prompt = prompt] ELSE p1

\* The whisper_full_params handed to whisper_full.
BuildParams(language, translate, prompt) ==
    LET p0 == whisper_full_default_params("GREEDY")
        p1 == [p0 EXCEPT !.n_threads = NThreads, !.language = "en",
                         !.translate = translate, !.print_progress = FALSE,
                         !.print_special = FALSE]
        p2 == IF language # NoStr THEN [p1 EXCEPT !.language = language] ELSE p1
    IN  IF prompt # NoStr THEN [p2 EXCEPT !.initial_prompt = prompt] ELSE p2

\* Variant of the debug calls that also asks for the segment count.
DebugCallsWithCount(ctx, nlen, langId) ==
    <<Call("whisper_n_len", ctx, 0, nlen),
      Call("whisper_full_n_segments", ctx, 0, 0)>>

\* Engine calls between whisper_full and the test of its result.
DebugCalls(ctx, nlen, langId) ==
    <<Call("whisper_n_len", ctx, 0, nlen)>>
    \o (IF nlen > 0
        THEN <<Call("whisper_lang_auto_detect", ctx, 0, langId)>>
             \o (IF langId >= 0 THEN <<Call("whisper_lang_str", NULL, langId, 0)>>
                 ELSE <<>>)
        ELSE <<>>)

\* Variant of the failure branch that destroys the context.
FailureCallsFreeing(ctx, code) == <<Call("whisper_free", ctx, 0, 0)>>

\* Engine calls of the failure branch (result != 0).
FailureCalls(ctx, code) == <<>>

\* What the failure branch returns.
FailureResult(code, allocOk) ==
    DupString(<<"[DEBUG:whisper_full_failed:", ToString(code), "]">>, allocOk)

\* What the zero-segment branch returns.
NoSegmentsResult(allocOk) == DupString(<<"[DEBUG:n_segments=0]">>, allocOk)

\* The per-segment loops: no_speech_prob, then the two passes over the texts.
SegmentCalls(ctx, n) ==
    [i \in 1..n |-> Call("whisper_full_get_segment_no_speech_prob", ctx, i - 1, 0)]
    \o [i \in 1..n |-> Call("whisper_full_get_segment_text", ctx, i - 1, 0)]
    \o [i \in 1..n |-> Call("whisper_full_get_segment_text", ctx, i - 1, 0)]

\* First pass: total_length.
RECURSIVE TotalLength(_, _, _)
TotalLength(segList, i, total) ==
    IF i > Len(segList) THEN total
    ELSE TotalLength(segList, i + 1,
                     IF ~segList[i].null THEN total + strlen(segList[i].s) ELSE total)

\* Second pass: strcat of every non-null text.
RECURSIVE Concatenate(_, _, _)
Concatenate(segList, i, buf) ==
    IF i > Len(segList) THEN buf
    ELSE Concatenate(segList, i + 1,
                     IF ~segList[i].null THEN strcat(buf, segList[i].s) ELSE buf)

\* Allocation of result_text and the concatenation into it.
CollectSegments(segList, allocOk) ==
    IF ~allocOk THEN NullText
    ELSE LET buf == malloc(TotalLength(segList, 1, 0) + 1)
             start == [buf EXCEPT ![1] = NUL]
         IN  Ptr(CStr(Concatenate(segList, 1, start)))

\* The engine calls of one transcribe call that passed the guard.
TranscribeCalls(ctx, len, code, nlen, langId, segList) ==
    <<Call("whisper_full", ctx, len, code)>>
    \o DebugCalls(ctx, nlen, langId)
    \o (IF code # 0 THEN FailureCalls(ctx, code)
        ELSE <<Call("whisper_full_n_segments", ctx, 0, Len(segList))>>
             \o (IF Len(segList) = 0 THEN <<>> ELSE SegmentCalls(ctx, Len(segList))))

\* The value one transcribe call that passed the guard returns.
TranscribeResult(code, segList, allocOk) ==
    IF code # 0 THEN FailureResult(code, allocOk)
    ELSE IF Len(segList) = 0 THEN NoSegmentsResult(allocOk)
    ELSE CollectSegments(segList, allocOk)

\* ------------------------------------------------------------ the engine
\* Lifecycle effect of a sequence of engine calls.
RECURSIVE Lifecycle(_, _, _)
Lifecycle(log, i, st) ==
    IF i > Len(log) THEN st
    ELSE Lifecycle(log, i + 1,
                   IF log[i].fn = "whisper_free" THEN [st EXCEPT ![log[i].ctx] = "Freed"]
                   ELSE IF log[i].fn = "whisper_init_from_file_with_params" /\ log[i].ret # NULL
                   THEN [st EXCEPT ![log[i].ret] = "Live"]
                   ELSE st)

\* Result lists after a sequence of engine calls; whisper_full leaves newSegs
\* in a live context, whisper_free and a load leave nothing.
RECURSIVE Results(_, _, _, _, _)
Results(log, i, st, sg, newSegs) ==
    IF i > Len(log) THEN sg
    ELSE Results(log, i + 1, st,
                 IF log[i].fn = "whisper_full" /\ st[log[i].ctx] = "Live"
                 THEN [sg EXCEPT ![log[i].ctx] = newSegs]
                 ELSE IF log[i].fn = "whisper_free" THEN [sg EXCEPT ![log[i].ctx] = <<>>]
                 ELSE IF log[i].fn = "whisper_init_from_file_with_params" /\ log[i].ret # NULL
                 THEN [sg EXCEPT ![log[i].ret] = <<>>]
                 ELSE sg,
                 newSegs)

\* The result lists whisper_full may leave: on success any list the engine can
\* produce, on failure nothing or what the context held before.
AfterInference(ctx, code, segLists) ==
    IF code = 0 THEN segLists ELSE {<<>>, segs[ctx]}

\* A call log touches a destroyed context: undefined behaviour.
UsesFreed(log) == \E i \in 1..Len(log) : StateOf(log[i].ctx) = "Freed"

\* --------------------------------------------------------------- actions
\* whisper_bridge_init(model_path)
whisper_bridge_init(model_path) ==
    /\ ~crashed
    /\ \E h \in Pointers :
          /\ IF h = NULL THEN TRUE
             ELSE ctxState[h] # "Live" /\ model_path # "missing.bin"
          /\ calls' = <<Call("whisper_init_from_file_with_params", NULL, 0, h)>>
          /\ last' = Op("init", h, FALSE, 0, NoStr, FALSE, NoStr, "null", NullText, TRUE)
    /\ ctxState' = Lifecycle(calls', 1, ctxState)
    /\ segs' = Results(calls', 1, ctxState, segs, <<>>)
    /\ alloc' = "none"
    /\ UNCHANGED <<params, crashed>>

\* Variant of whisper_bridge_free without the null test.
FreeCallsUnguarded(ctx) == <<Call("whisper_free", ctx, 0, 0)>>

\* The engine calls of whisper_bridge_free.
FreeCalls(ctx) == IF ctx # NULL THEN <<Call("whisper_free", ctx, 0, 0)>> ELSE <<>>

\* whisper_bridge_free(ctx)
whisper_bridge_free(ctx) ==
    /\ ~crashed
    /\ Held(ctx)
    /\ calls' = FreeCalls(ctx)
    /\ \E fault \in BOOLEAN :
          /\ fault => UsesFreed(calls')
          /\ crashed' = fault
          /\ last' = Op("free", ctx, FALSE, 0, NoStr, FALSE, NoStr, StateOf(ctx), NullText, ~fault)
    /\ ctxState' = Lifecycle(calls', 1, ctxState)
    /\ segs' = Results(calls', 1, ctxState, segs, <<>>)
    /\ alloc' = "none"
    /\ UNCHANGED params

\* Variant of whisper_bridge_is_valid that accepts every pointer.
IsValidAlways(ctx) == TRUE

\* The result of whisper_bridge_is_valid.
IsValid(ctx) == ctx # NULL

\* whisper_bridge_is_valid(ctx)
whisper_bridge_is_valid(ctx) ==
    /\ ~crashed
    /\ Held(ctx)
    /\ calls' = <<>>
    /\ last' = [Op("is_valid", ctx, FALSE, 0, NoStr, FALSE, NoStr, StateOf(ctx), NullText, TRUE)
                  EXCEPT !.valid = IsValid(ctx)]
    /\ alloc' = "none"
    /\ UNCHANGED <<ctxState, segs, params, crashed>>

\* whisper_bridge_transcribe(ctx, audio_data, audio_length, language, translate,
\* initial_prompt).  segLists and probes are the answers the engine may give:
\* the result list whisper_full leaves, and the <<n_len, lang_id>> pairs.
\* The statistics loop over audio_data only prints and is left out.
whisper_bridge_transcribe(ctx, audio, len, language, translate, prompt, segLists, probes) ==
    /\ ~crashed
    /\ Held(ctx)
    /\ IF InvalidInput(ctx, audio, len)
       THEN /\ calls' = <<>>
            /\ last' = Op("transcribe", ctx, audio, len, language, translate, prompt,
                          StateOf(ctx), NullText, TRUE)
            /\ alloc' = "none"
            /\ UNCHANGED <<ctxState, segs, params, crashed>>
       ELSE \E code \in RetCodes, probe \in probes, allocOk \in BOOLEAN, fault \in BOOLEAN :
            \E newSegs \in AfterInference(ctx, code, segLists) :
              /\ fault => ctxState[ctx] = "Freed"
              /\ calls' = IF fault THEN <<Call("whisper_full", ctx, len, code)>>
                          ELSE TranscribeCalls(ctx, len, code, probe[1], probe[2], newSegs)
              /\ params' = BuildParams(language, translate, prompt)
              /\ crashed' = fault
              /\ alloc' = IF fault THEN "none" ELSE IF allocOk THEN "ok" ELSE "failed"
              /\ last' = Op("transcribe", ctx, audio, len, language, translate, prompt,
                            StateOf(ctx),
                            IF fault THEN NullText
                            ELSE TranscribeResult(code, newSegs, allocOk),
                            ~fault)
              /\ ctxState' = Lifecycle(calls', 1, ctxState)
              /\ segs' = Results(calls', 1, ctxState, segs, newSegs)

\* ------------------------------------------------------- specifications
\* Spec: the four operations on every handle, with short engine answers.
Next ==
    \/ \E model_path \in ModelPaths : whisper_bridge_init(model_path)
    \/ \E ctx \in Pointers : whisper_bridge_free(ctx)
    \/ \E ctx \in Pointers : whisper_bridge_is_valid(ctx)
    \/ \E ctx \in Pointers, audio \in BOOLEAN, len \in AudioLengths, cfg \in TwoConfigs :
          whisper_bridge_transcribe(ctx, audio, len, cfg[1], cfg[2], cfg[3],
                                    ShortSegLists, {<<0, -1>>})

Spec == Init /\ [][Next]_vars

\* SpecCall: transcriptions on one loaded context, with every result list of
\* up to MaxSegs segments.
InitCall ==
    /\ ctxState = [h \in Handles |-> IF h = 1 THEN "Live" ELSE "Uninitialized"]
    /\ segs = [h \in Handles |-> <<>>]
    /\ last = Op("init", 1, FALSE, 0, NoStr, FALSE, NoStr, "null", NullText, TRUE)
    /\ calls = <<Call("whisper_init_from_file_with_params", NULL, 0, 1)>>
    /\ params = NoParams
    /\ alloc = "none"
    /\ crashed = FALSE

NextCall ==
    \E len \in {n \in AudioLengths : n > 0} :
        whisper_bridge_transcribe(1, TRUE, len, NoStr, FALSE, NoStr, SegLists, {<<0, -1>>})

SpecCall == InitCall /\ [][NextCall]_vars

\* SpecParams: transcriptions on one loaded context, with every configuration
\* and every answer of the engine's probes.
NextParams ==
    \E len \in {n \in AudioLengths : n > 0}, cfg \in Configs :
        whisper_bridge_transcribe(1, TRUE, len, cfg[1], cfg[2], cfg[3],
                                  ShortSegLists, Probes)

SpecParams == InitCall /\ [][NextParams]_vars

\* ---------------------------------------------------------------- claims
\* The last bridge call was a transcribe that returned after running inference.
Inferred ==
    /\ last.op = "transcribe"
    /\ last.done
    /\ calls # <<>>
    /\ calls[1].fn = "whisper_full"

InferenceCode == calls[1].ret

\* The segment count the engine reported in the last call (-1 when not asked).
ReportedSegments ==
    IF \E i \in 1..Len(calls) : calls[i].fn = "whisper_full_n_segments"
    THEN calls[CHOOSE i \in 1..Len(calls) : calls[i].fn = "whisper_full_n_segments"].ret
    ELSE -1

SegmentAccessors ==
    {"whisper_full_n_segments", "whisper_full_get_segment_text",
     "whisper_full_get_segment_no_speech_prob"}

\* The non-null texts of a result list, joined in order.
RECURSIVE JoinTexts(_)
JoinTexts(list) ==
    IF list = <<>> THEN <<>>
    ELSE (IF Head(list).null THEN <<>> ELSE Head(list).s) \o JoinTexts(Tail(list))

\* C1: whenever whisper_full returns a non-zero code, whisper_bridge_transcribe
\* returns the null sentinel, never a non-null text buffer.
C1_FailedInferenceReturnsNull ==
    (Inferred /\ InferenceCode # 0) => last.ret.null

\* C2: when whisper_full returns 0 and the engine reports zero segments,
\* whisper_bridge_transcribe returns an empty text or the null sentinel, never a
\* non-empty text, and the value differs from every value returned for a failed
\* inference.
C2_NoSegmentsIsEmptyResult ==
    (Inferred /\ InferenceCode = 0 /\ ReportedSegments = 0) =>
        /\ last.ret.null \/ last.ret.s = <<>>
        /\ \A c \in RetCodes \ {0}, ok \in BOOLEAN : last.ret # FailureResult(c, ok)

\* C3: with a null handle, a null audio pointer or audio_length <= 0,
\* whisper_bridge_transcribe returns null, makes no engine call, and leaves the
\* engine-side state of every handle as it was.
C3_InvalidInputNoEngineCall ==
    [][(last'.op = "transcribe" /\ (last'.ctx = NULL \/ ~last'.audio \/ last'.len <= 0)) =>
          /\ last'.done
          /\ last'.ret = NullText
          /\ calls' = <<>>
          /\ ctxState' = ctxState
          /\ segs' = segs
          /\ crashed' = crashed]_vars

C3_Witness ==
    /\ last.op = "transcribe"
    /\ last.pre = "Live"
    /\ last.audio
    /\ last.len = 0
    /\ last.ret.null
    /\ calls = <<>>
    /\ segs[last.ctx] # <<>>

\* C4: after a successful inference with N >= 1 segments and a successful
\* allocation, the returned buffer is the concatenation, in increasing segment
\* index, of exactly the non-null segment texts, with nothing inserted.
C4_ConcatenationInOrder ==
    (Inferred /\ InferenceCode = 0 /\ ReportedSegments >= 1 /\ alloc = "ok") =>
        /\ ~last.ret.null
        /\ ReportedSegments = Len(segs[last.ctx])
        /\ last.ret.s = JoinTexts(segs[last.ctx])

C4_Witness ==
    /\ Inferred
    /\ InferenceCode = 0
    /\ alloc = "ok"
    /\ segs[last.ctx] = <<Ptr(<<"b", "c">>), NullText, Ptr(<<"a">>)>>
    /\ last.ret = Ptr(<<"b", "c", "a">>)

\* C5: once a handle obtained from whisper_bridge_init has been freed,
\* whisper_bridge_is_valid on it returns false and no whisper_bridge_transcribe
\* on it returns text.
C5_FreedHandleIsInvalid ==
    last.pre = "Freed" =>
        /\ last.op = "is_valid" => ~last.valid
        /\ last.op = "transcribe" => ~(last.done /\ ~last.ret.null)

\* C6: whisper_bridge_free on a null handle makes no engine call, changes
\* nothing and does not fault; on a Live handle it calls whisper_free exactly
\* once and moves that handle, and no other, from Live to Freed.
C6_FreeDestroysOnce ==
    [][last'.op = "free" =>
          /\ last'.ctx = NULL =>
                /\ calls' = <<>>
                /\ last'.done
                /\ ~crashed'
                /\ ctxState' = ctxState
                /\ segs' = segs
          /\ last'.pre = "Live" =>
                /\ calls' = <<Call("whisper_free", last'.ctx, 0, 0)>>
                /\ last'.done
                /\ ~crashed'
                /\ ctxState[last'.ctx] = "Live"
                /\ ctxState'[last'.ctx] = "Freed"
                /\ \A h \in Handles \ {last'.ctx} : ctxState'[h] = ctxState[h]]_vars

C6_Witness ==
    /\ last.op = "free"
    /\ last.pre = "Live"
    /\ ctxState[last.ctx] = "Freed"
    /\ Len(calls) = 1
    /\ \E h \in Handles : ctxState[h] = "Live"

\* C7: no path through whisper_bridge_transcribe changes the lifecycle state of
\* any handle, and none calls whisper_free.
C7_TranscribeKeepsLifecycle ==
    [][last'.op = "transcribe" =>
          /\ ctxState' = ctxState
          /\ \A i \in 1..Len(calls') : calls'[i].fn # "whisper_free"]_vars

C7_Witness ==
    /\ Inferred
    /\ InferenceCode # 0
    /\ last.pre = "Live"
    /\ ctxState[last.ctx] = "Live"

\* C8: whisper_bridge_is_valid returns true exactly when its argument is
\* non-null and changes no state; called on what whisper_bridge_init just
\* returned, it is true for a loaded context and false for the null sentinel.
C8_IsValidIsNonNull ==
    [][last'.op = "is_valid" =>
          /\ last'.valid = (last'.ctx # NULL)
          /\ calls' = <<>>
          /\ ctxState' = ctxState
          /\ segs' = segs
          /\ params' = params
          /\ crashed' = crashed
          /\ (last.op = "init" /\ last'.ctx = last.ctx) =>
                (last'.valid = (StateOf(last.ctx) = "Live"))]_vars

C8_Witness ==
    /\ last.op = "is_valid"
    /\ last.valid
    /\ last.pre = "Live"

\* C9: within one whisper_bridge_transcribe call a segment accessor is invoked
\* only after whisper_full has returned 0, and never when it returned non-zero.
C9_AccessorsAfterSuccess ==
    last.op = "transcribe" =>
        /\ \A i \in 1..Len(calls) :
              calls[i].fn \in SegmentAccessors =>
                  \E j \in 1..(i - 1) : calls[j].fn = "whisper_full" /\ calls[j].ret = 0
        /\ (\E j \in 1..Len(calls) : calls[j].fn = "whisper_full" /\ calls[j].ret # 0) =>
              \A i \in 1..Len(calls) : calls[i].fn \notin SegmentAccessors

C9_Witness ==
    /\ Inferred
    /\ InferenceCode # 0
    /\ Len(calls) = 4
    /\ calls[3].fn = "whisper_lang_auto_detect"

\* C10: the engine receives the caller's language when one is given and "en"
\* otherwise, the caller's initial_prompt when one is given and the engine
\* default otherwise, and the caller's translate flag.
C10_ParamsFollowCaller ==
    (last.op = "transcribe" /\ calls # <<>> /\ calls[1].fn = "whisper_full") =>
        /\ params.language = (IF last.language # NoStr THEN last.language ELSE "en")
        /\ params.initial_prompt =
              (IF last.prompt # NoStr THEN last.prompt ELSE EngineDefault)
        /\ params.translate = last.translate

C10_Witness ==
    /\ Inferred
    /\ last.language = "fr"
    /\ params.language = "fr"
    /\ last.prompt = NoStr
    /\ params.initial_prompt = EngineDefault
    /\ params.translate

====
